---- MODULE Spec2Model ----
(***************************************************************************)
(* The multi-process ingestion pipeline of scripts/handler.py:             *)
(* one producer (OSMtoESHandler, driven by osmium's apply_file) that       *)
(* batches records and puts the batches on a multiprocessing Queue(1),     *)
(* and worker_count writer processes (writer_thread) that get batches      *)
(* from that queue and bulk-write them to the store.                       *)
(***************************************************************************)
EXTENDS Integers, Sequences, FiniteSets, TLC

\* ---------------------------------------------------------------- bounds
MaxRecords == 3      \* callbacks the record source delivers at most
MaxCacheSize == 2    \* largest opts.db_cache_size tried
MaxWorkers == 2      \* largest opts.worker_count tried

\* ------------------------------------------------------ program constants
QueueMaxSize == 1        \* Queue(1)
ReportInterval == 50000  \* show_import_status: % 50000

None == "None"           \* Python's None, where a timestamp is expected
NoCount == 0 - 1         \* Python's None, where bulk()'s count is expected
Utcnow == "utcnow"       \* datetime.utcnow(): some timestamp, never None

Kinds == {"node", "way", "rel", "area"}

\* An osmium object as the callbacks read it: obj.visible,
\* obj.location.valid() (read by node only), and whether shaping it into a
\* record (geometry creation, process_element up to the counter) raises.
Nodes == [visible : BOOLEAN, valid : BOOLEAN, raises : BOOLEAN]

Objs == [visible : BOOLEAN, raises : BOOLEAN]

VARIABLES
    \* options and construction
    db_cache_size,   \* self.db_cache_size
    worker_count,    \* opts.worker_count
    index_created,   \* create_index() has succeeded in __init__
    \* producer (the handler object and its position in run)
    pc,              \* where the producer is
    fed,             \* callbacks delivered by apply_file so far
    counter,         \* self.counter
    pending,         \* self.pending (each record is the ordinal of its acceptance)
    pendingCount,    \* self.pendingCount
    job_counter,     \* self.job_counter
    stopsSent,       \* iterations done of run's "for _ in self.writers"
    joined,          \* iterations done of run's "for p in self.writers: p.join()"
    reports,         \* status lines logged by show_import_status
    errors,          \* "There was an error loading ..." lines logged by the callbacks
    \* the Queue
    has_queue,       \* self.queue has been created
    queue,           \* items put and not yet got
    closed,          \* queue.close() has been called
    \* the writer processes
    wpc,             \* wpc[w]: where writer w is
    job,             \* job[w]: the item writer w got and is writing
    response,        \* response[w]: what bulk did with it, once bulk is over
    indexed_docs,    \* indexed_docs[w]
    \* history
    sealed,          \* the batches flush() has put, in order
    gets,            \* gets[j]: how many times the j-th batch has been got
    attempts,        \* attempts[j]: how many documents of the j-th batch the store
                     \* took, for each bulk call made with it
    stopped,         \* stopped[w]: termination messages writer w has got
    \* the single-process importer of osm2es.py (its handler has fields
    \* db_cache_size and counter of its own, and apply_file feeds it too)
    main,            \* where its main program is
    cache,           \* self.cache
    saved            \* the lists save_cache has called bulk with, in order

options == <<db_cache_size, worker_count, index_created>>
producer == <<pc, fed, counter, pending, pendingCount, job_counter,
              stopsSent, joined, reports, errors>>
channel == <<has_queue, queue, closed>>
workers == <<wpc, job, response, indexed_docs>>
history == <<sealed, gets, attempts, stopped>>
single == <<main, cache, saved>>
vars == <<options, producer, channel, workers, history, single>>

\* self.writers: the processes started by __init__
writers == DOMAIN wpc

\* The termination message (None, None, None) of run; its job_counter and
\* data are never read by writer_thread.
Token == [ts |-> None, job_counter |-> 0, data |-> <<>>]

\* Whether an item of the queue is the termination message
IsStopItem(item) == item = Token

NoJob == [job_counter |-> 0, data |-> <<>>]

\* While bulk has not answered
NoResponse == [raised |-> FALSE, actions |-> NoCount, errs |-> 0]

\* One more entry in the history of batch j
Record(h, j, x) ==
    IF j \in DOMAIN h THEN [h EXCEPT ![j] = Append(@, x)] ELSE h

\* One more get of batch j
Count(h, j) ==
    IF j \in DOMAIN h THEN [h EXCEPT ![j] = @ + 1] ELSE h

\* ------------------------------------------------------------ the queue
\* Variant of the queue with no maxsize; Backpressure must not survive it.
NeverFull(q) == FALSE

\* Queue(1).put blocks while maxsize items are in the queue
Full(q) == Len(q) >= QueueMaxSize

\* Queue.get blocks while the queue is empty, and returns the oldest item
Empty(q) == Len(q) = 0

\* Variant of get that leaves the item in the queue; ExactlyOnce must not
\* survive it.
QueuePeek(q) == [item |-> Head(q), rest |-> q]

QueueGet(q) == [item |-> Head(q), rest |-> Tail(q)]

QueuePut(q, item) == Append(q, item)

\* ------------------------------------------------------- progress report
\* "sum(self.counter.values())": the counter has these four keys
Total(c) == c["node"] + c["way"] + c["rel"] + c["area"]

\* Variant of show_import_status without its test; ReportAtInterval must
\* not survive it.
ReportEvery(c, log) == Append(log, c)

\* show_import_status: one log line when the total is a multiple of 50000
show_import_status(c, log) ==
    IF Total(c) % ReportInterval = 0 THEN Append(log, c) ELSE log

\* ------------------------------------------------------------ __init__
\* The options given, and nothing constructed yet
Init ==
    /\ db_cache_size \in 1..MaxCacheSize
    /\ worker_count \in 1..MaxWorkers
    /\ index_created = FALSE
    /\ pc = "__init__"
    /\ fed = 0
    /\ counter = [k \in Kinds |-> 0]
    /\ pending = <<>>
    /\ pendingCount = 0
    /\ job_counter = 1
    /\ stopsSent = 0
    /\ joined = 0
    /\ reports = <<>>
    /\ errors = 0
    /\ has_queue = FALSE
    /\ queue = <<>>
    /\ closed = FALSE
    /\ wpc = <<>>
    /\ job = <<>>
    /\ response = <<>>
    /\ indexed_docs = <<>>
    /\ sealed = <<>>
    /\ gets = <<>>
    /\ attempts = <<>>
    /\ stopped = <<>>
    /\ main = "apply_file"
    /\ cache = <<>>
    /\ saved = <<>>

\* Variant of __init__ whose except clause only logs, so that construction
\* goes on without an index; SetupFailure must not survive it.
Swallowed(created) == FALSE

\* "try: self.create_index()  except: raise ValueError(...)"
SetupRaises(created) == ~created

\* __init__ from create_index on: the index is created or the call fails;
\* on failure ValueError leaves __init__ at once, otherwise the Queue is
\* created and worker_count processes are started on writer_thread
__init__ ==
    /\ pc = "__init__"
    /\ \E created \in BOOLEAN :
        /\ index_created' = created
        /\ IF SetupRaises(created)
           THEN /\ pc' = "aborted"
                /\ UNCHANGED <<has_queue, workers, stopped>>
           ELSE /\ pc' = "apply_file"
                /\ has_queue' = TRUE
                /\ wpc' = [w \in 1..worker_count |-> "get"]
                /\ job' = [w \in 1..worker_count |-> NoJob]
                /\ response' = [w \in 1..worker_count |-> NoResponse]
                /\ indexed_docs' = [w \in 1..worker_count |-> 0]
                /\ stopped' = [w \in 1..worker_count |-> 0]
    /\ UNCHANGED <<db_cache_size, worker_count, single>>
    /\ UNCHANGED <<fed, counter, pending, pendingCount, job_counter,
                   stopsSent, joined, reports, errors>>
    /\ UNCHANGED <<queue, closed, sealed, gets, attempts>>

\* ------------------------------------------------------------ accumulator
\* Variant of the threshold test with a strict comparison (flush one record
\* late); BatchCount must not survive it.
ThresholdStrict(count, size) == count > size

\* finalize_object: "if self.pendingCount >= self.db_cache_size: self.flush()"
ThresholdReached(count, size) == count >= size

\* Variant of finalize_object without "self.pendingCount += 1";
\* CountedIsBatched must not survive it.
AppendOnly(id) ==
    /\ pending' = Append(pending, id)
    /\ pendingCount' = pendingCount
    /\ pc' = "apply_file"

\* finalize_object(obj): append, count, and enter flush() at the threshold
finalize_object(id) ==
    /\ pending' = Append(pending, id)
    /\ pendingCount' = pendingCount + 1
    /\ pc' = IF ThresholdReached(pendingCount + 1, db_cache_size)
             THEN "finalize_flush" ELSE "apply_file"

\* Variant of the callbacks without their try/except: the exception leaves
\* the callback and ends apply_file; ShapingErrorSkips must not survive it.
Uncaught == "raised"

\* "except: logger.error(...)" in node, way and area: the callback returns
\* and apply_file goes on with the next object
AfterError == "apply_file"

\* process_element: shape the record (may raise, caught and logged by the
\* callback), count it, report, hand it to finalize_object
process_element(obj, type) ==
    IF obj.raises
    THEN /\ errors' = errors + 1
         /\ pc' = AfterError
         /\ UNCHANGED <<counter, reports, pending, pendingCount>>
    ELSE /\ counter' = [counter EXCEPT ![type] = @ + 1]
         /\ reports' = show_import_status(counter', reports)
         /\ finalize_object(Total(counter'))
         /\ UNCHANGED errors

Callback ==
    /\ pc = "apply_file"
    /\ fed < MaxRecords
    /\ fed' = fed + 1
    /\ UNCHANGED <<job_counter, stopsSent, joined>>
    /\ UNCHANGED <<options, channel, workers, history, single>>

node ==
    /\ Callback
    /\ \E obj \in Nodes :
        IF obj.visible /\ obj.valid
        THEN process_element(obj, "node")
        ELSE UNCHANGED <<pc, counter, reports, errors, pending, pendingCount>>

way ==
    /\ Callback
    /\ \E obj \in Objs :
        IF ~obj.visible
        THEN UNCHANGED <<pc, counter, reports, errors, pending, pendingCount>>
        ELSE process_element(obj, "way")

relation ==
    /\ Callback
    /\ UNCHANGED <<pc, counter, reports, errors, pending, pendingCount>>

area ==
    /\ Callback
    /\ \E obj \in Objs :
        IF ~obj.visible
        THEN UNCHANGED <<pc, counter, reports, errors, pending, pendingCount>>
        ELSE process_element(obj, "area")

\* Variant of flush without its early return; FlushOfNothing must not
\* survive it.
NeverNothing(count) == FALSE

\* flush: "if self.pendingCount == 0: return"
NothingPending(count) == count = 0

\* Variant of flush that empties self.pending but leaves self.pendingCount
\* as it is; NoPutAfterClose must not survive it.
KeepCount(count) == count

\* flush: "self.pendingCount = 0"
ResetCount(count) == 0

\* Variant of flush that does not advance self.job_counter; SealedInOrder
\* must not survive it.
SameJobCounter(n) == n

\* flush: "self.job_counter += 1"
NextJobCounter(n) == n + 1

\* Variant in which run goes from its flush straight to the joins, without
\* the termination messages and the close; ShutdownOrder must not survive it.
FlushThenJoin(at) ==
    CASE at = "finalize_flush" -> "apply_file"
      [] at = "run_flush" -> "join"
      [] at = "exit_flush" -> "exited"

\* Where flush returns to: finalize_object (and so apply_file), run, __exit__
AfterFlush(at) ==
    CASE at = "finalize_flush" -> "apply_file"
      [] at = "run_flush" -> "stop_writers"
      [] at = "exit_flush" -> "exited"

\* flush(), entered from finalize_object, from run or from __exit__.  The
\* put blocks while the queue is full; put on a closed queue raises.
flush ==
    /\ pc \in {"finalize_flush", "run_flush", "exit_flush"}
    /\ IF NothingPending(pendingCount)
       THEN /\ pc' = AfterFlush(pc)
            /\ UNCHANGED <<queue, job_counter, pending, pendingCount, sealed,
                           gets, attempts>>
       ELSE IF closed
       THEN /\ pc' = "raised"
            /\ UNCHANGED <<queue, job_counter, pending, pendingCount, sealed,
                           gets, attempts>>
       ELSE /\ ~Full(queue)
            /\ LET batch == [ts |-> Utcnow, job_counter |-> job_counter,
                             data |-> pending]
               IN /\ queue' = QueuePut(queue, batch)
                  /\ sealed' = Append(sealed, batch)
                  /\ gets' = Append(gets, 0)
                  /\ attempts' = Append(attempts, <<>>)
            /\ job_counter' = NextJobCounter(job_counter)
            /\ pending' = <<>>
            /\ pendingCount' = ResetCount(pendingCount)
            /\ pc' = AfterFlush(pc)
    /\ UNCHANGED <<fed, counter, stopsSent, joined, reports, errors, has_queue,
                   closed>>
    /\ UNCHANGED <<options, workers, stopped, single>>

\* ------------------------------------------------------------------- run
\* Variant of run without its flush after apply_file; AllAttempted must not
\* survive it.
SkipRunFlush == "stop_writers"

\* run: "self.apply_file(...)" is followed by "self.flush()"
AfterApplyFile == "run_flush"

\* apply_file returns: the record source is exhausted; run goes on to flush
apply_file_returns ==
    /\ pc = "apply_file"
    /\ pc' = AfterApplyFile
    /\ UNCHANGED <<fed, counter, pending, pendingCount, job_counter,
                   stopsSent, joined, reports, errors>>
    /\ UNCHANGED <<options, channel, workers, history, single>>

\* Variant of run that puts one termination message too few; RunCompletes
\* must not survive it.
OneFewer == Cardinality(writers) - 1

\* "for _ in self.writers": one iteration for each process started
StopsNeeded == Cardinality(writers)

\* "for _ in self.writers: self.queue.put((None, None, None))"
stop_writer ==
    /\ pc = "stop_writers"
    /\ stopsSent < StopsNeeded
    /\ ~Full(queue)
    /\ queue' = QueuePut(queue, Token)
    /\ stopsSent' = stopsSent + 1
    /\ UNCHANGED <<pc, fed, counter, pending, pendingCount, job_counter,
                   joined, reports, errors, has_queue, closed>>
    /\ UNCHANGED <<options, workers, history, single>>

\* Variant of run that closes the queue ahead of its loop of puts;
\* CloseAfterPuts must not survive it.
CloseFirst(sent, needed) == TRUE

\* The "for _ in self.writers" loop is over: it has made one put per writer
LoopOver(sent, needed) == sent = needed

\* "self.queue.close()", the statement after the loop
close_queue ==
    /\ pc = "stop_writers"
    /\ LoopOver(stopsSent, StopsNeeded)
    /\ closed' = TRUE
    /\ pc' = "join"
    /\ UNCHANGED <<fed, counter, pending, pendingCount, job_counter,
                   stopsSent, joined, reports, errors, has_queue, queue>>
    /\ UNCHANGED <<options, workers, history, single>>

\* Variant of run that does not wait for the writers; StopsAndJoins must
\* not survive it.
NoWait(w) == TRUE

\* p.join() returns once process p has exited, that is once writer_thread
\* has returned
Exited(w) == wpc[w] = "stopped"

\* "for p in self.writers: p.join()"
join ==
    /\ pc = "join"
    /\ joined < Cardinality(writers)
    /\ Exited(joined + 1)
    /\ joined' = joined + 1
    /\ UNCHANGED <<pc, fed, counter, pending, pendingCount, job_counter,
                   stopsSent, reports, errors>>
    /\ UNCHANGED <<options, channel, workers, history, single>>

\* "self.show_import_status(); logger.info('Done!')" and run returns
run_returns ==
    /\ pc = "join"
    /\ joined = Cardinality(writers)
    /\ reports' = show_import_status(counter, reports)
    /\ pc' = "returned"
    /\ UNCHANGED <<fed, counter, pending, pendingCount, job_counter,
                   stopsSent, joined, errors>>
    /\ UNCHANGED <<options, channel, workers, history, single>>

\* __exit__: "self.flush()"
exit ==
    /\ pc = "returned"
    /\ pc' = "exit_flush"
    /\ UNCHANGED <<fed, counter, pending, pendingCount, job_counter,
                   stopsSent, joined, reports, errors>>
    /\ UNCHANGED <<options, channel, workers, history, single>>

\* --------------------------------------------------------- writer_thread
\* What elasticsearch.helpers.bulk can do with a batch: raise, or return
\* (actions, errs) with actions the number of documents indexed
BulkResponses(data) ==
    {[raised |-> TRUE, actions |-> NoCount, errs |-> 0]}
    \cup {[raised |-> FALSE, actions |-> a, errs |-> Len(data) - a] :
            a \in 0..Len(data)}

\* The documents the store took in a bulk call: none when the call raised
Taken(resp) ==
    IF resp.raised \/ resp.actions = NoCount THEN 0 ELSE resp.actions

\* Variant of write_actions that counts the documents sent, not the ones
\* indexed; RejectedBatch must not survive it.
CountSent(resp) ==
    IF resp.raised THEN 0 ELSE resp.actions + resp.errs

\* Variant of write_actions that counts nothing for a batch with failed
\* documents; PartialWrite must not survive it.
AllOrNothing(resp) ==
    IF resp.raised \/ resp.errs > 0 THEN 0 ELSE resp.actions

\* write_actions: the count bulk returned, 0 if it is None or if bulk raised
write_actions(resp) ==
    IF resp.raised THEN 0
    ELSE IF resp.actions = NoCount THEN 0 ELSE resp.actions

\* Variant of writer_thread that never recognises the termination message;
\* OneStopEach must not survive it.
NeverStop(item) == FALSE

\* Variant of writer_thread whose test takes any item for the termination
\* message; BatchesBeforeStops must not survive it.
StopOnAny(item) == TRUE

\* "if ts is None: ... return"
IsStop(item) == item.ts = None

\* Variant of write_actions without its except clause: the exception ends
\* the writer; RaiseIsSurvived must not survive it.
Propagate(resp) == IF resp.raised THEN "crashed" ELSE "get"

\* write_actions catches whatever bulk raises, so writer_thread always
\* goes round its "while True" loop again after a write
AfterWrite(resp) == "get"

\* Variant of writer_thread without the "return" under "if ts is None": the
\* writer logs its count and loops; WorkerStates must not survive it.
LoopOn == "get"

\* "if ts is None: ... return": writer_thread returns, the process exits
AfterToken == "stopped"

\* "ts, job_counter, data = queue.get()" and the test of ts; with a batch
\* the writer goes on into write_actions and calls bulk
get(w) ==
    /\ wpc[w] = "get"
    /\ ~Empty(queue)
    /\ LET got == QueueGet(queue)
       IN /\ queue' = got.rest
          /\ IF IsStop(got.item)
             THEN /\ wpc' = [wpc EXCEPT ![w] = AfterToken]
                  /\ stopped' = [stopped EXCEPT ![w] = @ + 1]
                  /\ UNCHANGED <<job, gets>>
             ELSE /\ wpc' = [wpc EXCEPT ![w] = "bulk"]
                  /\ job' = [job EXCEPT ![w] =
                               [job_counter |-> got.item.job_counter,
                                data |-> got.item.data]]
                  /\ gets' = Count(gets, got.item.job_counter)
                  /\ UNCHANGED stopped
    /\ UNCHANGED <<response, indexed_docs, has_queue, closed, sealed, attempts>>
    /\ UNCHANGED <<options, producer, single>>

\* "actions, errs = bulk(client=client, index=index_name, actions=data)":
\* the call comes back, with a result or with an exception
bulk(w) ==
    /\ wpc[w] = "bulk"
    /\ \E resp \in BulkResponses(job[w].data) :
        response' = [response EXCEPT ![w] = resp]
    /\ wpc' = [wpc EXCEPT ![w] = "write_actions"]
    /\ UNCHANGED <<job, indexed_docs>>
    /\ UNCHANGED <<options, producer, channel, history, single>>

\* The rest of write_actions, and "indexed_docs += write_actions(...)"
write(w) ==
    /\ wpc[w] = "write_actions"
    /\ indexed_docs' = [indexed_docs EXCEPT ![w] = @ + write_actions(response[w])]
    /\ attempts' = Record(attempts, job[w].job_counter, Taken(response[w]))
    /\ wpc' = [wpc EXCEPT ![w] = AfterWrite(response[w])]
    /\ job' = [job EXCEPT ![w] = NoJob]
    /\ response' = [response EXCEPT ![w] = NoResponse]
    /\ UNCHANGED <<sealed, gets, stopped>>
    /\ UNCHANGED <<options, producer, channel, single>>

\* ---------------------------------------------------------- specification
Producer ==
    \/ __init__
    \/ node
    \/ way
    \/ relation
    \/ area
    \/ flush
    \/ apply_file_returns
    \/ stop_writer
    \/ close_queue
    \/ join
    \/ run_returns
    \/ exit

Writer(w) ==
    \/ get(w)
    \/ bulk(w)
    \/ write(w)

Next ==
    \/ Producer
    \/ \E w \in 1..MaxWorkers : w \in writers /\ Writer(w)

Spec == Init /\ [][Next]_vars

\* The operating system schedules every process that can run: the producer
\* and each writer process keep taking steps while they are not blocked.
FairSpec ==
    /\ Spec
    /\ WF_vars(Producer)
    /\ \A w \in 1..MaxWorkers : WF_vars(w \in writers /\ Writer(w))

\* ------------------------------------------------------------- osm2es.py
\* The single-process importer: the callbacks append to self.cache and
\* save_cache writes the cache to the store from the same process.  Under
\* CacheSpec db_cache_size, counter and fed are those of this importer, and
\* the pipeline of handler.py is left as it was constructed.
pipeline ==
    <<worker_count, index_created, pc, pending, pendingCount, job_counter,
      stopsSent, joined, reports, errors, channel, workers, history>>

\* Variant of check_cache_save that saves once the cache is past the size;
\* ModulusIsCounter must not survive it.
PastSize(len, size) == len > size

\* check_cache_save: "if len(self.cache) % self.db_cache_size == 0"
CacheFull(len, size) == len % size = 0

\* save_cache, called with the cache c: bulk is called with it and returns,
\* and the cache is cleared, or bulk raises, nothing catches it, and the
\* cache is left as it is
save_cache(c, after) ==
    /\ saved' = Append(saved, c)
    /\ \E raised \in BOOLEAN :
          IF raised
          THEN cache' = c /\ main' = "raised"
          ELSE cache' = <<>> /\ main' = after

\* "self.cache.append(x_db); self.increment_cache(type)": append, count,
\* check_cache_save
append(type) ==
    LET c == Append(cache, Total(counter) + 1)
    IN /\ counter' = [counter EXCEPT ![type] = @ + 1]
       /\ IF CacheFull(Len(c), db_cache_size)
          THEN save_cache(c, "apply_file")
          ELSE cache' = c /\ UNCHANGED <<main, saved>>

\* One object delivered by apply_file
CacheCallback ==
    /\ main = "apply_file"
    /\ fed < MaxRecords
    /\ fed' = fed + 1
    /\ UNCHANGED <<db_cache_size, pipeline>>

\* node: a node without a valid location is passed over
cache_node ==
    /\ CacheCallback
    /\ \E valid \in BOOLEAN :
          IF valid
          THEN append("node")
          ELSE UNCHANGED <<counter, single>>

\* way, relation, area: shaping the record may raise (the geometry cannot
\* be built, a member is of an unknown kind), which nothing catches
shape_and_append(type) ==
    \E raises \in BOOLEAN :
        IF raises
        THEN main' = "raised" /\ UNCHANGED <<counter, cache, saved>>
        ELSE append(type)

cache_way ==
    /\ CacheCallback
    /\ shape_and_append("way")

cache_relation ==
    /\ CacheCallback
    /\ shape_and_append("rel")

cache_area ==
    /\ CacheCallback
    /\ shape_and_append("area")

\* apply_file returns; the main program goes on to its own save_cache
cache_apply_file_returns ==
    /\ main = "apply_file"
    /\ main' = "save_cache"
    /\ UNCHANGED <<db_cache_size, fed, counter, cache, saved, pipeline>>

\* "osmHandler.save_cache()" at the end of the main program
final_save_cache ==
    /\ main = "save_cache"
    /\ save_cache(cache, "done")
    /\ UNCHANGED <<db_cache_size, fed, counter, pipeline>>

CacheNext ==
    \/ cache_node
    \/ cache_way
    \/ cache_relation
    \/ cache_area
    \/ cache_apply_file_returns
    \/ final_save_cache

CacheSpec == Init /\ [][CacheNext]_vars

\* ================================================================ claims
\* Helpers of the properties below (they model no code).

RECURSIVE SumSizes(_)
SumSizes(batches) ==
    IF batches = <<>> THEN 0
    ELSE Len(Head(batches).data) + SumSizes(Tail(batches))

\* f[1] + ... + f[n]
RECURSIVE SumTo(_, _)
SumTo(f, n) == IF n = 0 THEN 0 ELSE f[n] + SumTo(f, n - 1)

\* The sum of f over the writers, which are 1..n
SumOf(f, ws) == SumTo(f, Cardinality(ws))

CeilDiv(n, k) == (n + k - 1) \div k

\* Records accepted so far: process_element counts a record exactly when it
\* hands it to finalize_object
Accepted == Total(counter)

\* run has done its flush (and whatever follows)
AfterRunFlush == pc \in {"stop_writers", "join", "returned", "exit_flush", "exited"}

\* run has returned
RunReturned == pc \in {"returned", "exit_flush", "exited"}

StopsInQueue == Cardinality({i \in DOMAIN queue : IsStopItem(queue[i])})

\* ------------------------------------------------------------------- C1
\* C1: once run has done its final flush after N accepted records with
\* threshold K, exactly ceil(N/K) batches have been sealed, every batch but
\* the last holds K records, the last holds between 1 and K, and the sizes
\* sum to N.
BatchCount ==
    AfterRunFlush =>
        /\ Len(sealed) = CeilDiv(Accepted, db_cache_size)
        /\ SumSizes(sealed) = Accepted
        /\ \A j \in DOMAIN sealed :
              /\ j < Len(sealed) => Len(sealed[j].data) = db_cache_size
              /\ Len(sealed[j].data) \in 1..db_cache_size

\* three records with threshold 2: a full batch and a partial last one
BatchCountWitness ==
    /\ AfterRunFlush
    /\ Accepted = 3
    /\ db_cache_size = 2
    /\ Len(sealed) = 2
    /\ Len(sealed[2].data) = 1

\* ------------------------------------------------------------------- C2
\* C2: a flush with pendingCount = 0 changes nothing but the producer's
\* position: no item is put (queue and the history of sealed batches are
\* unchanged) and job_counter, pending and pendingCount keep their values;
\* so a second flush right after it finds pendingCount = 0 again.
FlushOfNothing ==
    [][(/\ pc \in {"finalize_flush", "run_flush", "exit_flush"}
        /\ pendingCount = 0
        /\ pc' # pc)
       => UNCHANGED <<queue, sealed, job_counter, pending, pendingCount>>]_vars

\* run's flush and then __exit__'s flush both found nothing pending
FlushOfNothingWitness ==
    /\ pc = "exited"
    /\ Accepted = 2
    /\ db_cache_size = 2
    /\ Len(sealed) = 1

\* ------------------------------------------------------------------- C3
\* C3: run puts at most worker_count termination messages, and when it has
\* returned it has put exactly worker_count of them (so many have gone
\* through the queue) and every one of the worker_count writers has stopped.
StopsAndJoins ==
    /\ index_created => Cardinality(writers) = worker_count
    /\ stopsSent <= worker_count
    /\ RunReturned =>
          /\ stopsSent = worker_count
          /\ StopsInQueue + SumOf(stopped, writers) = worker_count
          /\ \A w \in writers : wpc[w] = "stopped"

StopsAndJoinsWitness ==
    /\ pc = "returned"
    /\ worker_count = 2
    /\ stopsSent = 2
    /\ Len(sealed) >= 2

\* ------------------------------------------------------------------- C4
\* C4: no termination message is lost (each one put is in the queue or has
\* been got by a writer), no writer ever gets two, and once the writers have
\* been joined every writer has got exactly one.
OneStopEach ==
    /\ StopsInQueue + SumOf(stopped, writers) = stopsSent
    /\ \A w \in writers : stopped[w] <= 1
    /\ \A w \in writers : (wpc[w] = "stopped") <=> (stopped[w] = 1)
    /\ RunReturned => \A w \in writers : stopped[w] = 1

\* two writers, both stopped, the second one first
OneStopEachWitness ==
    /\ worker_count = 2
    /\ pc = "join"
    /\ joined = 0
    /\ wpc[2] = "stopped"
    /\ wpc[1] = "bulk"
    /\ stopped[2] = 1

\* ------------------------------------------------------------------- C5
\* C5: a writer whose bulk call raised does not stop: its next step takes it
\* back to queue.get() with its indexed_docs unchanged, and (writers and
\* producer being scheduled) it then gets the next item of the queue, a
\* batch it goes on to write or its termination message.
Raised(w) == w \in writers /\ wpc[w] = "write_actions" /\ response[w].raised

RaiseIsSurvived ==
    /\ [][\A w \in writers :
            (Raised(w) /\ wpc'[w] # wpc[w]) =>
                /\ wpc'[w] = "get"
                /\ indexed_docs'[w] = indexed_docs[w]]_vars
    /\ \A w \in 1..MaxWorkers :
          Raised(w) ~> (w \in writers /\ wpc[w] \in {"bulk", "stopped"})

\* the only writer has got nothing out of batch 1, bulk has just raised on
\* batch 2, and the next item is waiting in the queue
RaiseIsSurvivedWitness ==
    /\ worker_count = 1
    /\ Raised(1)
    /\ job[1].job_counter = 2
    /\ attempts[1] = <<0>>
    /\ Len(queue) = 1

\* ------------------------------------------------------------------- C6
\* C6: when every writer has stopped, if the store took no document of
\* exactly one batch and took every document of every other batch, the
\* indexed_docs of the writers sum to the number of accepted records minus
\* the size of that one batch.
RejectedBatches == {j \in DOMAIN sealed : attempts[j] = <<0>>}

TakenBatches == {j \in DOMAIN sealed : attempts[j] = <<Len(sealed[j].data)>>}

AllStopped == index_created /\ \A w \in writers : wpc[w] = "stopped"

RejectedBatch ==
    (/\ AllStopped
     /\ Cardinality(RejectedBatches) = 1
     /\ RejectedBatches \cup TakenBatches = DOMAIN sealed)
    => \A j \in RejectedBatches :
         SumOf(indexed_docs, writers) = Accepted - Len(sealed[j].data)

\* two batches, two writers: the first batch rejected, the second one taken
RejectedBatchWitness ==
    /\ AllStopped
    /\ worker_count = 2
    /\ db_cache_size = 2
    /\ Accepted = 3
    /\ attempts = <<(<<0>>), (<<1>>)>>
    /\ SumOf(indexed_docs, writers) = 1

\* ------------------------------------------------------------------- C7
\* C7: the queue never holds more than 1 item; the batches in flight (in the
\* queue or held by a writer) are at most 1 + worker_count, and with the one
\* being assembled at most worker_count + 2; and while the queue holds an
\* item, a producer that is at a put cannot take a step.
BatchesInQueue == Cardinality({i \in DOMAIN queue : ~IsStopItem(queue[i])})

BatchesHeld == Cardinality({w \in writers : wpc[w] \in {"bulk", "write_actions"}})

InFlight == BatchesInQueue + BatchesHeld

Assembling == IF pendingCount > 0 THEN 1 ELSE 0

AtPut ==
    \/ pc \in {"finalize_flush", "run_flush", "exit_flush"} /\ pendingCount > 0
    \/ pc = "stop_writers" /\ stopsSent < Cardinality(writers)

Backpressure ==
    /\ Len(queue) <= 1
    /\ InFlight <= 1 + worker_count
    /\ InFlight + Assembling <= worker_count + 2
    /\ (AtPut /\ Len(queue) >= 1) => ~ENABLED Producer

\* one writer: a batch in the queue, one being written, and the producer
\* blocked with a third
BackpressureWitness ==
    /\ worker_count = 1
    /\ Len(queue) = 1
    /\ InFlight = 2
    /\ pc = "finalize_flush"
    /\ Assembling = 1

\* ------------------------------------------------------------------- C8
\* C8: the j-th sealed batch carries number j and, at any time, is either
\* in the queue once and not yet got, or has been got exactly once; a batch
\* that has been got is held by exactly one writer or has had exactly one
\* bulk call, never both and never more; when every writer has stopped each
\* batch has been got once and attempted once.
InQueue(j) == Cardinality({i \in DOMAIN queue : queue[i] = sealed[j]})

Holders(j) ==
    {w \in writers : wpc[w] \in {"bulk", "write_actions"}
                       /\ job[w].job_counter = j}

ExactlyOnce ==
    /\ \A i \in DOMAIN queue :
          IsStopItem(queue[i]) \/ \E j \in DOMAIN sealed : queue[i] = sealed[j]
    /\ \A w \in writers :
          wpc[w] \in {"bulk", "write_actions"} => job[w].job_counter \in DOMAIN sealed
    /\ \A j \in DOMAIN sealed :
          /\ sealed[j].job_counter = j
          /\ InQueue(j) + gets[j] = 1
          /\ Cardinality(Holders(j)) + Len(attempts[j]) = gets[j]
          /\ AllStopped => gets[j] = 1 /\ Len(attempts[j]) = 1

\* two writers, three batches: one attempted, one held, one in the queue
ExactlyOnceWitness ==
    /\ worker_count = 2
    /\ Len(sealed) = 3
    /\ Len(attempts[1]) = 1
    /\ Cardinality(Holders(2)) = 1
    /\ InQueue(3) = 1

\* ------------------------------------------------------------------- C9
\* C9: when run is at its final show_import_status (every writer joined),
\* and from then on, nothing is pending, the queue is empty, no writer holds
\* a batch, and every accepted record is in exactly one sealed batch, which
\* has had its bulk call.
AtFinalEmit == \/ pc = "join" /\ joined = Cardinality(writers)
               \/ RunReturned

BatchesOf(r) ==
    {j \in DOMAIN sealed : \E i \in DOMAIN sealed[j].data : sealed[j].data[i] = r}

AllAttempted ==
    AtFinalEmit =>
        /\ pending = <<>>
        /\ pendingCount = 0
        /\ queue = <<>>
        /\ \A w \in writers : wpc[w] = "stopped"
        /\ \A r \in 1..Accepted :
              /\ Cardinality(BatchesOf(r)) = 1
              /\ \A j \in BatchesOf(r) : Len(attempts[j]) = 1

\* three records in two batches, the last one partial, one bulk call failed
AllAttemptedWitness ==
    /\ pc = "join"
    /\ joined = Cardinality(writers)
    /\ worker_count = 2
    /\ Accepted = 3
    /\ db_cache_size = 2
    /\ attempts = <<(<<2>>), (<<0>>)>>

\* ------------------------------------------------------------------ C10
\* C10: once the index is created and apply_file has returned, run returns
\* with every writer stopped, whatever the bulk calls did, provided the
\* producer and every writer keep being scheduled (FairSpec).
RunCompletes ==
    (index_created /\ pc = "run_flush") ~> (RunReturned /\ AllStopped)

\* run has returned after three batches, two of which the store rejected
RunCompletesWitness ==
    /\ pc = "returned"
    /\ AllStopped
    /\ worker_count = 2
    /\ attempts = <<(<<0>>), (<<1>>), (<<0>>)>>

\* ------------------------------------------------------------------ C11
\* C11: when run has returned, its final show_import_status has logged the
\* cumulative counts, whatever their total: the last status line is the
\* counter as it then stands.
FinalEmitUnconditional ==
    RunReturned =>
        /\ reports # <<>>
        /\ reports[Len(reports)] = counter

\* ------------------------------------------------------------------ C12
\* C12: while create_index has not succeeded, and for good once it has
\* failed, there is no Queue and no writer process, no batch has been sealed
\* or written; a construction that failed has raised and is where nothing
\* can take a step any more.  Queue and writers appear only with the index.
SetupFailure ==
    /\ ~index_created =>
          /\ pc \in {"__init__", "aborted"}
          /\ ~has_queue
          /\ writers = {}
          /\ queue = <<>>
          /\ sealed = <<>>
          /\ attempts = <<>>
    /\ pc = "aborted" => ~index_created /\ ~ENABLED Next
    /\ (has_queue \/ writers # {}) => index_created

\* create_index has failed and __init__ has raised
SetupFailureWitness ==
    /\ pc = "aborted"
    /\ ~index_created
    /\ worker_count = 2
    /\ writers = {}

\* ------------------------------------------------------------------ C13
\* C13 as stated: at the step that closes the queue, every one of the
\* worker_count termination messages has already been got by a writer.
CloseAfterGets ==
    [][(~closed /\ closed') =>
          /\ StopsInQueue = 0
          /\ SumOf(stopped, writers) = worker_count]_vars

\* C13 as amended: the queue is closed only after every one of the
\* worker_count termination messages has been put; at the step that closes
\* it no batch is in the queue, at most one termination message (the last
\* one put) is still there and the others have been got; once run has
\* returned every one has been got.
CloseAfterPuts ==
    /\ [](closed => stopsSent = worker_count)
    /\ [][(~closed /\ closed') =>
             /\ stopsSent = worker_count
             /\ BatchesInQueue = 0
             /\ StopsInQueue <= 1
             /\ SumOf(stopped, writers) = worker_count - StopsInQueue]_vars
    /\ [](RunReturned =>
             /\ StopsInQueue = 0
             /\ SumOf(stopped, writers) = worker_count)

\* the queue is closed while the last termination message is still in it
CloseAfterPutsWitness ==
    /\ closed
    /\ worker_count = 2
    /\ StopsInQueue = 1
    /\ SumOf(stopped, writers) = 1

\* ------------------------------------------------------------------ C14
\* C14: once the queue is closed nothing is pending and nothing is put any
\* more: no step adds an item to the queue, seals a batch or sends a
\* termination message, and the flush of __exit__ never gets to a put on the
\* closed queue (which would raise).
NoPutAfterClose ==
    /\ [](closed => /\ pendingCount = 0
                    /\ pending = <<>>
                    /\ pc # "raised")
    /\ [][closed => /\ queue' = queue \/ (queue # <<>> /\ queue' = Tail(queue))
                    /\ sealed' = sealed
                    /\ stopsSent' = stopsSent
                    /\ job_counter' = job_counter]_vars

\* run and then __exit__ have ended, after two batches
NoPutAfterCloseWitness ==
    /\ pc = "exited"
    /\ closed
    /\ Len(sealed) = 2
    /\ queue = <<>>

\* ------------------------------------------------------------------ C15
\* C15: a writer is running (at get, in bulk, in write_actions) or stopped.
\* A running writer stops only by getting a termination message, and always
\* stops when it gets one; a writer that holds a batch stays running
\* whatever bulk answers.  A stopped writer stays stopped: it takes nothing
\* from the queue, makes no bulk call, and its indexed_docs never changes.
WorkerStates ==
    /\ [](\A w \in writers :
             wpc[w] \in {"get", "bulk", "write_actions", "stopped"})
    /\ [][\A w \in writers :
            /\ wpc[w] = "stopped" =>
                  /\ wpc'[w] = "stopped"
                  /\ indexed_docs'[w] = indexed_docs[w]
                  /\ job'[w] = job[w]
                  /\ response'[w] = response[w]
                  /\ stopped'[w] = stopped[w]
            /\ (wpc[w] # "stopped" /\ wpc'[w] = "stopped") =>
                  /\ wpc[w] = "get"
                  /\ queue # <<>>
                  /\ IsStopItem(Head(queue))
                  /\ queue' = Tail(queue)
                  /\ stopped'[w] = stopped[w] + 1
            /\ stopped'[w] # stopped[w] => wpc'[w] = "stopped"
            /\ wpc[w] \in {"bulk", "write_actions"} =>
                  wpc'[w] \in {"bulk", "write_actions", "get"}]_vars
    /\ [][Len(queue') < Len(queue) =>
            \E w \in writers : /\ wpc[w] = "get"
                               /\ wpc'[w] \in {"bulk", "stopped"}]_vars

\* writer 1 has stopped with a document indexed while writer 2 is still
\* writing a batch
WorkerStatesWitness ==
    /\ index_created
    /\ worker_count = 2
    /\ wpc[1] = "stopped"
    /\ indexed_docs[1] >= 1
    /\ wpc[2] = "write_actions"

\* ------------------------------------------------------------------ C16
\* C16: the j-th batch sealed carries job_counter j (1, 2, 3, ... with no
\* gap and no repeat; the next number to give is one more than the batches
\* sealed), and the batches are got in the order sealed: a batch that has
\* been got has every batch sealed before it got as well, whichever writers
\* got them, and a batch in the queue is the oldest one not yet got.
SealedInOrder ==
    /\ job_counter = Len(sealed) + 1
    /\ \A j \in DOMAIN sealed : sealed[j].job_counter = j
    /\ \A i, j \in DOMAIN sealed :
          (i < j /\ gets[j] >= 1) => gets[i] >= 1
    /\ \A k \in DOMAIN queue :
          ~IsStopItem(queue[k]) =>
              \A i \in DOMAIN sealed :
                  i < queue[k].job_counter => gets[i] >= 1

\* three batches, two writers: writer 2 holds batch 1, writer 1 holds
\* batch 2, batch 3 is in the queue
SealedInOrderWitness ==
    /\ index_created
    /\ worker_count = 2
    /\ Len(sealed) = 3
    /\ gets = <<1, 1, 0>>
    /\ job[2].job_counter = 1
    /\ job[1].job_counter = 2
    /\ Len(queue) = 1

\* ------------------------------------------------------------------ C17
\* C17: from the moment a writer has got a termination message, every
\* sealed batch has been got (once), no batch is in the queue, and no batch
\* is still to be sealed (nothing is pending and the producer is past its
\* last flush); so when all the writers have stopped no batch was skipped.
BatchesBeforeStops ==
    /\ SumOf(stopped, writers) >= 1 =>
          /\ \A j \in DOMAIN sealed : gets[j] = 1
          /\ BatchesInQueue = 0
          /\ pendingCount = 0
          /\ AfterRunFlush
    /\ AllStopped =>
          /\ queue = <<>>
          /\ \A j \in DOMAIN sealed : gets[j] = 1

\* writer 2 has got its termination message while writer 1 is still in the
\* bulk call of the last of three batches
BatchesBeforeStopsWitness ==
    /\ index_created
    /\ worker_count = 2
    /\ stopped[2] = 1
    /\ wpc[1] = "bulk"
    /\ job[1].job_counter = 3
    /\ Len(sealed) = 3

\* ------------------------------------------------------------------ C18
\* C18: the producer moves only along
\*   __init__, apply_file (with the flushes of finalize_object), run's
\*   flush, the puts of termination messages, close, the joins, the final
\*   show_import_status, __exit__'s flush;
\* once apply_file has returned no record is counted or made pending; run's
\* flush seals the pending records if there are any, and nothing else is
\* sealed after it; termination messages are put only after that flush and
\* only before the close; the close comes after worker_count puts; joins
\* come only after the close, each one of a writer that has stopped; and run
\* returns only after worker_count joins.
ProducerOrder ==
    {<<"__init__", "apply_file">>, <<"__init__", "aborted">>,
     <<"apply_file", "finalize_flush">>, <<"finalize_flush", "apply_file">>,
     <<"apply_file", "run_flush">>, <<"run_flush", "stop_writers">>,
     <<"stop_writers", "join">>, <<"join", "returned">>,
     <<"returned", "exit_flush">>, <<"exit_flush", "exited">>}

SourceExhausted ==
    pc \in {"run_flush", "stop_writers", "join", "returned", "exit_flush", "exited"}

ShutdownOrder ==
    /\ [](/\ stopsSent >= 1 => AfterRunFlush
          /\ closed <=> pc \in {"join", "returned", "exit_flush", "exited"}
          /\ closed => stopsSent = worker_count
          /\ joined >= 1 => closed
          /\ RunReturned => joined = worker_count)
    /\ [][/\ pc' # pc => <<pc, pc'>> \in ProducerOrder
          /\ SourceExhausted => /\ SourceExhausted'
                                /\ counter' = counter
                                /\ fed' = fed
                                /\ Len(pending') <= Len(pending)
          /\ (pc = "run_flush" /\ pc' # pc) =>
                /\ Len(sealed') = Len(sealed) + (IF pendingCount > 0 THEN 1 ELSE 0)
                /\ pendingCount' = 0
                /\ stopsSent = 0
          /\ AfterRunFlush => sealed' = sealed /\ pending' = <<>>
          /\ stopsSent' # stopsSent => /\ pc = "stop_writers"
                                       /\ ~closed
                                       /\ stopsSent' = stopsSent + 1
          /\ (~closed /\ closed') => stopsSent = worker_count /\ joined = 0
          /\ joined' # joined => /\ closed
                                 /\ joined' = joined + 1
                                 /\ wpc[joined'] = "stopped"
          /\ (pc = "join" /\ pc' = "returned") => joined = worker_count]_vars

\* run has gone through all five steps, with a partial batch sealed by its
\* flush and two writers joined
ShutdownOrderWitness ==
    /\ pc = "returned"
    /\ worker_count = 2
    /\ db_cache_size = 2
    /\ Accepted = 3
    /\ Len(sealed) = 2
    /\ joined = 2

\* ------------------------------------------------------------------ C19
\* C19: every step that counts a record counts exactly one, and logs the
\* new counts if their total is a multiple of 50000 and nothing otherwise;
\* a status line is logged only by such a step or by the final call in run,
\* only when the total is a multiple of 50000, and it shows the counts as
\* they then stand; in particular a call at any other total leaves the log
\* as it is.  Every line ever logged has a total that is a multiple of 50000.
ReportAtInterval ==
    /\ [](\A i \in DOMAIN reports :
             (reports[i]["node"] + reports[i]["way"] + reports[i]["rel"]
                + reports[i]["area"]) % 50000 = 0)
    /\ [][/\ counter' # counter =>
                /\ \E k \in Kinds : counter' = [counter EXCEPT ![k] = @ + 1]
                /\ reports' = IF Total(counter') % 50000 = 0
                              THEN Append(reports, counter')
                              ELSE reports
          /\ reports' # reports =>
                /\ counter' # counter \/ (pc = "join" /\ pc' = "returned")
                /\ Total(counter') % 50000 = 0
                /\ reports' = Append(reports, counter')
          /\ (pc = "join" /\ pc' = "returned" /\ Total(counter) % 50000 # 0) =>
                reports' = reports]_vars

\* three records counted, run over: four calls of show_import_status and
\* not one line logged
ReportAtIntervalWitness ==
    /\ pc = "returned"
    /\ Accepted = 3
    /\ counter["node"] = 1
    /\ counter["way"] = 1
    /\ counter["area"] = 1
    /\ reports = <<>>

\* ------------------------------------------------------------------ C20
\* C20: when bulk returns for a batch with some documents indexed and some
\* reported as failed, the writer's next step adds to its indexed_docs
\* exactly the number indexed (the batch size less the failures), puts
\* nothing back on the queue, and takes the writer back to queue.get(); no
\* batch is ever got or sent to bulk a second time.
Partial(w) ==
    /\ w \in writers
    /\ wpc[w] = "write_actions"
    /\ ~response[w].raised
    /\ response[w].errs > 0

PartialWrite ==
    /\ [](\A j \in DOMAIN sealed : gets[j] <= 1 /\ Len(attempts[j]) <= 1)
    /\ [][\A w \in writers :
            (Partial(w) /\ wpc'[w] # wpc[w]) =>
                /\ indexed_docs'[w] =
                      indexed_docs[w] + Len(job[w].data) - response[w].errs
                /\ indexed_docs'[w] < indexed_docs[w] + Len(job[w].data)
                /\ wpc'[w] = "get"
                /\ queue' = queue
                /\ sealed' = sealed
                /\ gets' = gets
                /\ attempts'[job[w].job_counter] =
                      <<Len(job[w].data) - response[w].errs>>]_vars

\* the only writer indexed one of the two documents of batch 1 and is now
\* in the bulk call of batch 2
PartialWriteWitness ==
    /\ index_created
    /\ worker_count = 1
    /\ Len(sealed) = 2
    /\ Len(sealed[1].data) = 2
    /\ attempts[1] = <<1>>
    /\ indexed_docs[1] = 1
    /\ wpc[1] = "bulk"
    /\ job[1].job_counter = 2

\* ------------------------------------------------------------------ C21
\* C21: a callback whose record fails in shaping logs one error and changes
\* nothing else: the counters, pending, pendingCount, job_counter, the
\* queue and the sealed batches keep their values, and the producer is where
\* it was, in apply_file, ready for the next object.  The run is never
\* ended by such an error, and the records accepted around it are batched
\* as if it had not been there: pending always holds the latest accepted
\* records, in order and without a gap, the failed records are among those
\* delivered and not counted, and every batch but the last is full.
ShapingErrorSkips ==
    /\ [](/\ pc # "raised"
          /\ Accepted + errors <= fed
          /\ Len(pending) = pendingCount
          /\ \A i \in DOMAIN pending : pending[i] = Accepted - pendingCount + i
          /\ \A j \in DOMAIN sealed :
                j < Len(sealed) => Len(sealed[j].data) = db_cache_size)
    /\ [][errors' # errors =>
             /\ errors' = errors + 1
             /\ fed' = fed + 1
             /\ pc = "apply_file"
             /\ UNCHANGED <<pc, counter, pending, pendingCount, job_counter,
                            queue, sealed, reports>>]_vars

\* three objects delivered, one of which failed in shaping: the other two
\* make up a full batch of two
ShapingErrorSkipsWitness ==
    /\ errors = 1
    /\ fed = 3
    /\ Accepted = 2
    /\ db_cache_size = 2
    /\ Len(sealed) = 1
    /\ sealed[1].data = <<1, 2>>
    /\ pendingCount = 0

\* ------------------------------------------------------------------ C23
\* C23: the counters add up to the records accepted into batches so far,
\* that is pendingCount plus the sizes of the batches sealed, and
\* pendingCount is the length of pending.  No counter ever decreases; a step
\* that changes the counters adds exactly 1 to exactly one of them and
\* appends exactly one record to pending (adding 1 to pendingCount), and a
\* step that appends to pending is such a step.
CountedIsBatched ==
    /\ [](/\ counter["node"] + counter["way"] + counter["rel"] + counter["area"]
               = pendingCount + SumSizes(sealed)
          /\ pendingCount = Len(pending)
          /\ counter["rel"] = 0)
    /\ [][/\ \A k \in Kinds : counter'[k] >= counter[k]
          /\ counter' # counter =>
                /\ \E k \in Kinds : counter' = [counter EXCEPT ![k] = @ + 1]
                /\ \E r \in 1..MaxRecords + 1 : pending' = Append(pending, r)
                /\ pendingCount' = pendingCount + 1
                /\ sealed' = sealed
          /\ Len(pending') > Len(pending) =>
                /\ Len(pending') = Len(pending) + 1
                /\ counter' # counter]_vars

\* a node, a way and an area counted: two records in a sealed batch and one
\* pending
CountedIsBatchedWitness ==
    /\ counter["node"] = 1
    /\ counter["way"] = 1
    /\ counter["area"] = 1
    /\ db_cache_size = 2
    /\ Len(sealed) = 1
    /\ pendingCount = 1


\* C22: in osm2es.py the test len(cache) % db_cache_size = 0, made after
\* each append, is the test of a counter of the appends since the last
\* save: the cache never holds more than db_cache_size records, and a
\* callback that appends a record calls save_cache exactly when that record
\* is the db_cache_size-th since the last save, with the db_cache_size
\* records of the cache.
ModulusIsCounter ==
    /\ [](Len(cache) <= db_cache_size)
    /\ [][counter' # counter =>
            /\ (saved' # saved) <=> (Len(cache) + 1 = db_cache_size)
            /\ saved' # saved =>
                  /\ Len(saved') = Len(saved) + 1
                  /\ Len(saved'[Len(saved')]) = db_cache_size]_vars

\* Three records appended with db_cache_size = 2: the second was saved with
\* the first, and the third waits alone in the cache.
ModulusIsCounterWitness ==
    /\ main = "apply_file"
    /\ db_cache_size = 2
    /\ Total(counter) = 3
    /\ Len(saved) = 1
    /\ Len(saved[1]) = 2
    /\ Len(cache) = 1

====
